---------------------------- MODULE Spec2Model ----------------------------
(***************************************************************************)
(* FaceToEquation: the front-end curve evaluators (FeatureVisualizer,      *)
(* FaceEquations, FaceVisualizer, EquationGraph, EnhancedFaceVisualizer),  *)
(* the FaceEquations upload component, and the fitting core the front end  *)
(* calls through POST /api/face/upload.                                    *)
(*                                                                         *)
(* Numbers.  A coordinate is a rational <<num, den>> (den > 0, not         *)
(* reduced); JavaScript's doubles are modelled by exact arithmetic.  The   *)
(* places where the rounding of doubles decides control flow (the          *)
(* accumulating loop variables t += 1/numPoints, t += 0.05, t += 0.1) are  *)
(* modelled by the iteration counts IEEE-754 produces.                     *)
(***************************************************************************)
EXTENDS Integers, Sequences, FiniteSets, TLC

VARIABLES
    \* ---- one evaluator applied to one descriptor (SpecEval)
    equation,        \* the equation descriptor handed to the evaluator
    points,          \* the landmark points of the same feature
    evaluator,       \* the evaluator that ran last ("none" before any)
    result,          \* what it returned: [outcome, data, warned]
    \* ---- FaceEquations, single-request version (Spec)
    file, preview, loading, error, landmarks, equations,
    selectedFeature, equationType, degree,
    pc,              \* position of the running uploadImage call
    request,         \* the request in flight: what formData carried
    inFlight,        \* uploadImage calls started and not yet finished
    component,       \* which FaceEquations the page mounts
    landmarkData,    \* two-step version only: the analyze response
    \* ---- the visualizers over a whole result (SpecViz)
    faceData, showPoints, showCurves, vizSelected,
    \* ---- the fitting core (SpecFit)
    fitRequest, fitResult

evalVars == <<equation, points, evaluator, result>>
mountVars == <<component, landmarkData>>
uiVars   == <<file, preview, loading, error, landmarks, equations,
              selectedFeature, equationType, degree, pc, request, inFlight,
              mountVars>>
vizVars  == <<faceData, showPoints, showCurves, vizSelected>>
fitVars  == <<fitRequest, fitResult>>
vars     == <<evalVars, uiVars, vizVars, fitVars>>

(***************************************************************************)
(* Bounds of the model.                                                    *)
(***************************************************************************)
MaxCoeffs == 3        \* longest coefficient sequence drawn
MaxHarmonics == 2     \* most (sin, cos) pairs in a trigonometric payload
MaxCtrl == 3          \* most control points of a drawn Bezier curve
MaxAbsX == 3          \* integer abscissae -MaxAbsX..MaxAbsX
MaxBinomialN == 15    \* largest n binomial(n, k) is called with

\* the Degree/Terms input's min and max
DegreeMin == 1
DegreeMax == 10

(***************************************************************************)
(* Arithmetic helpers.                                                     *)
(***************************************************************************)
RECURSIVE Pow(_, _)
\* Math.pow on a non-negative integer exponent (Math.pow(0, 0) = 1).
Pow(b, e) == IF e = 0 THEN 1 ELSE b * Pow(b, e - 1)

Rat(n, d) == <<n, d>>
RatEq(a, b) == a[1] * b[2] = b[1] * a[2]

Min(a, b) == IF a < b THEN a ELSE b

RECURSIVE SeqsUpTo(_, _)
\* all sequences over S of length 0..n
SeqsUpTo(S, n) ==
    IF n = 0 THEN {<<>>}
    ELSE LET shorter == SeqsUpTo(S, n - 1)
         IN  shorter \cup {Append(s, v) : s \in {t \in shorter : Len(t) = n - 1}, v \in S}

(***************************************************************************)
(* The nine feature keys.                                                  *)
(***************************************************************************)
features == <<"jawline", "right_eyebrow", "left_eyebrow", "nose_bridge",
              "nose_tip", "right_eye", "left_eye", "outer_lips", "inner_lips">>
Features == {features[i] : i \in 1..Len(features)}

(***************************************************************************)
(* Equation descriptors.  A descriptor is a record whose fields depend on  *)
(* its tag; a field the payload does not carry is absent (undefined).      *)
(***************************************************************************)
Undefined == [type |-> "undefined"]
Has(obj, fld) == fld \in DOMAIN obj

CanonicalString == "y = f(x)"
EquationStrings == {CanonicalString, ""}

CoeffVals == {-1, 0, 2}
CoeffSeqs == {c \in SeqsUpTo(CoeffVals, MaxCoeffs) : Len(c) >= 1}

ParamVals == {0, 1}
\* [offset, sin_1, cos_1, ..., sin_K, cos_K] for K = 0..MaxHarmonics
ParamSeqs == {p \in SeqsUpTo(ParamVals, 2 * MaxHarmonics + 1) : Len(p) % 2 = 1}

\* the tags of the data model
DataModelTags == {"polynomial", "trigonometric", "fourier", "bezier",
                  "hermite_spline", "parametric_ellipse", "piecewise"}

PolynomialDescs ==
    {[type |-> "polynomial", equation |-> CanonicalString, coefficients |-> c] :
        c \in CoeffSeqs}

\* a trigonometric payload is `parameters`; EquationGraph also looks for a
\* `coefficients` field, so both shapes are drawn (the second one with the
\* leading parameters as coefficients)
TrigDescs ==
    {[type |-> "trigonometric", equation |-> CanonicalString, parameters |-> p] :
        p \in ParamSeqs}
    \cup
    {[type |-> "trigonometric", equation |-> CanonicalString, parameters |-> p,
      coefficients |-> SubSeq(p, 1, Min(Len(p), MaxCoeffs))] : p \in ParamSeqs}

FourierDescs ==
    {[type |-> "fourier", equation |-> CanonicalString, coefficients |-> c] :
        c \in {<<2>>, <<0, 2, -1>>}}

CtrlPoints == {<<0, 0>>, <<1, 2>>, <<2, 0>>, <<2, 2>>}
\* landmark sequences: at least 3 points, no duplicate consecutive points
CtrlSeqs ==
    {cp \in SeqsUpTo(CtrlPoints, MaxCtrl) :
        Len(cp) >= 3 /\ \A k \in 1..(Len(cp) - 1) : cp[k] # cp[k + 1]}

BezierDescs ==
    {[type |-> "bezier", equation |-> CanonicalString, control_points |-> cp] :
        cp \in CtrlSeqs}

EllipseDescs ==
    {[type |-> "parametric_ellipse", equation |-> CanonicalString,
      center |-> <<5, 5>>, semi_major |-> 2, semi_minor |-> 1, rotation_theta |-> 0]}

\* the tags EnhancedFaceVisualizer evaluates
SplineSegs ==
    {[coefficients |-> <<cx, cy>>, degree |-> Len(cx) - 1] :
        cx \in {<<2, 0>>, <<1, -1, 0>>}, cy \in {<<0, 2>>}}

PiecewiseSplineDescs ==
    {[type |-> "piecewise_spline", equation |-> CanonicalString,
      segments |-> [left |-> l, right |-> r]] : l \in SplineSegs, r \in SplineSegs}

ParametricEyeDescs ==
    {[type |-> "parametric_eye", equation |-> CanonicalString, center |-> <<5, 5>>,
      parameters |-> [a |-> a, b |-> 1, theta |-> th]] : a \in {1, 2}, th \in {0, 3}}

LipCurve == [control_points |-> <<<<0, 0>>, <<1, 2>>, <<2, 0>>>>]
LipBow == [segments |->
             [left  |-> [start |-> <<0, 0>>, control |-> <<1, 2>>, end |-> <<1, 0>>],
              right |-> [start |-> <<1, 0>>, control |-> <<1, 2>>, end |-> <<2, 0>>]]]

CompositeLipsDescs ==
    {[type |-> "composite_lips", equation |-> CanonicalString,
      curves |-> [upper |-> LipCurve, lower |-> LipCurve]],
     [type |-> "composite_lips", equation |-> CanonicalString,
      curves |-> [upper |-> LipCurve, lower |-> LipCurve], cupids_bow |-> LipBow]}

HermiteDescs ==
    {[type |-> "hermite_spline", equation |-> CanonicalString,
      parameters |-> [x |-> ys, c |-> <<2, -1, 0, 1>>]] :
        ys \in {<<1, 3>>, <<1, 3, 4>>}}

PiecewiseDescs ==
    {[type |-> "piecewise", equation |-> CanonicalString,
      segments |-> <<[type |-> "polynomial", coefficients |-> <<2, 0>>]>>]}

\* tags no component knows
UnknownDescs ==
    {[type |-> t, equation |-> CanonicalString, coefficients |-> <<2, -1>>] :
        t \in {"auto", "logarithmic"}}

Descriptors ==
    PolynomialDescs \cup TrigDescs \cup FourierDescs \cup BezierDescs
    \cup EllipseDescs \cup PiecewiseSplineDescs \cup ParametricEyeDescs
    \cup CompositeLipsDescs \cup HermiteDescs \cup PiecewiseDescs \cup UnknownDescs

\* landmark points of one feature: [x, y] pairs, normalized to [0, 1]
LandmarkSets == {<<<<Rat(1, 10), Rat(5, 10)>>, <<Rat(3, 10), Rat(4, 10)>>,
                   <<Rat(5, 10), Rat(3, 10)>>>>}

\* landmarks[feature].map(([x, y]) => ({ x, y, type: 'point' }))
landmarkPoints(pts) ==
    [k \in 1..Len(pts) |-> [x |-> pts[k][1], y |-> pts[k][2], type |-> "point"]]

Returned(data) == [outcome |-> "returned", data |-> data, warned |-> FALSE]
TypeError == [outcome |-> "TypeError", data |-> <<>>, warned |-> FALSE]
NoResult == [outcome |-> "none", data |-> <<>>, warned |-> FALSE]

(***************************************************************************)
(* The polynomial evaluators.  Each one samples x = i / numPoints and sums *)
(* coefficient * Math.pow(x, power); with x = xn / xd the sum is kept over *)
(* the common denominator xd^(length - 1).                                 *)
(***************************************************************************)
PolyDen(coefficients, xd) ==
    IF Len(coefficients) = 0 THEN 1 ELSE Pow(xd, Len(coefficients) - 1)

\* FeatureVisualizer: coefficients[j] * Math.pow(x, coefficients.length - 1 - j)
curveTerm(coefficients, j, xn, xd) ==
    coefficients[j + 1] * Pow(xn, Len(coefficients) - 1 - j) * Pow(xd, j)

RECURSIVE curveLoop(_, _, _, _)
\* FeatureVisualizer: for (let j = 0; j < coefficients.length; j++) y += ...
curveLoop(coefficients, j, xn, xd) ==
    IF j < Len(coefficients)
    THEN curveTerm(coefficients, j, xn, xd) + curveLoop(coefficients, j + 1, xn, xd)
    ELSE 0

curveY(coefficients, xn, xd) ==
    Rat(curveLoop(coefficients, 0, xn, xd), PolyDen(coefficients, xd))

CurveSamples == 100

\* FeatureVisualizer.generateCurvePoints, for the selected feature's entry
generateCurvePoints(eq, pts) ==
    IF eq = Undefined THEN Returned(<<>>)
    ELSE IF ~Has(eq, "coefficients") THEN TypeError
    ELSE LET curvePoints ==
                 [k \in 1..(CurveSamples + 1) |->
                     [x |-> Rat(k - 1, CurveSamples),
                      y |-> curveY(eq.coefficients, k - 1, CurveSamples),
                      type |-> "curve"]]
         IN  Returned(curvePoints \o landmarkPoints(pts))

\* FaceEquations: coeffs[j] * Math.pow(x, coeffs.length - 1 - j)
plotTerm(coeffs, j, xn, xd) ==
    coeffs[j + 1] * Pow(xn, Len(coeffs) - 1 - j) * Pow(xd, j)

RECURSIVE plotLoop(_, _, _, _)
\* FaceEquations: for (let j = 0; j < coeffs.length; j++) y += ...
plotLoop(coeffs, j, xn, xd) ==
    IF j < Len(coeffs)
    THEN plotTerm(coeffs, j, xn, xd) + plotLoop(coeffs, j + 1, xn, xd)
    ELSE 0

plotY(coeffs, xn, xd) == Rat(plotLoop(coeffs, 0, xn, xd), PolyDen(coeffs, xd))

PlotSamples == 100

\* FaceEquations.generatePlotData, given landmarks[feature] and equations[feature]
generatePlotData(eq, pts) ==
    IF eq = Undefined THEN Returned(<<>>)
    ELSE IF ~Has(eq, "coefficients") THEN TypeError
    ELSE LET curvePoints ==
                 [k \in 1..(PlotSamples + 1) |->
                     [x |-> Rat(k - 1, PlotSamples),
                      y |-> plotY(eq.coefficients, k - 1, PlotSamples),
                      type |-> "curve"]]
         IN  Returned(curvePoints \o landmarkPoints(pts))

\* the coefficients read lowest degree first
equationTermLowestFirst(coefficients, power, xn, xd) ==
    coefficients[power + 1] * Pow(xn, power) * Pow(xd, Len(coefficients) - 1 - power)

\* FaceVisualizer: coeff * Math.pow(x, coefficients.length - 1 - power), where
\* `power` is forEach's index
equationTerm(coefficients, power, xn, xd) ==
    coefficients[power + 1] * Pow(xn, Len(coefficients) - 1 - power) * Pow(xd, power)

RECURSIVE equationLoop(_, _, _, _)
\* FaceVisualizer: coefficients.forEach((coeff, power) => y += ...)
equationLoop(coefficients, power, xn, xd) ==
    IF power < Len(coefficients)
    THEN equationTerm(coefficients, power, xn, xd)
         + equationLoop(coefficients, power + 1, xn, xd)
    ELSE 0

equationY(coefficients, xn, xd) ==
    Rat(equationLoop(coefficients, 0, xn, xd), PolyDen(coefficients, xd))

EquationSamples == 50

\* FaceVisualizer.generateEquationPoints(coefficients, numPoints = 50)
generateEquationPoints(coefficients) ==
    [k \in 1..(EquationSamples + 1) |->
        [x |-> Rat(k - 1, EquationSamples),
         y |-> equationY(coefficients, k - 1, EquationSamples),
         type |-> "curve"]]

\* EquationGraph: power = coefficients.length - 1 - index; coeff * Math.pow(x, power)
graphTerm(coefficients, index, xn, xd) ==
    LET power == Len(coefficients) - 1 - index
    IN  coefficients[index + 1] * Pow(xn, power) * Pow(xd, index)

RECURSIVE graphLoop(_, _, _, _)
\* EquationGraph: equations.coefficients.forEach((coeff, index) => y += ...)
graphLoop(coefficients, index, xn, xd) ==
    IF index < Len(coefficients)
    THEN graphTerm(coefficients, index, xn, xd)
         + graphLoop(coefficients, index + 1, xn, xd)
    ELSE 0

graphY(coefficients, xn, xd) ==
    Rat(graphLoop(coefficients, 0, xn, xd), PolyDen(coefficients, xd))

(***************************************************************************)
(* EquationGraph's trigonometric series.  sin and cos are kept symbolic:   *)
(* y is the offset and the list of terms coeff * fn(harmonic * PI * x) in  *)
(* the order they are added.                                               *)
(***************************************************************************)
TrigTerm(coeff, fn, harmonic) == [coeff |-> coeff, fn |-> fn, harmonic |-> harmonic]

\* the harmonic index multiplying PI * x for the pair stored at (j, j + 1)
graphHarmonic(j) == j

RECURSIVE trigLoop(_, _)
\* for (let j = 1; j < params.length; j += 2) if (j + 1 < params.length) y += ...
trigLoop(params, j) ==
    IF j < Len(params)
    THEN (IF j + 1 < Len(params)
          THEN <<TrigTerm(params[j + 1], "sin", graphHarmonic(j)),
                 TrigTerm(params[j + 2], "cos", graphHarmonic(j))>>
          ELSE <<>>)
         \o trigLoop(params, j + 2)
    ELSE <<>>

trigY(params) == [offset |-> params[1], terms |-> trigLoop(params, 1)]

GraphSamples == 100

\* an evaluator that refuses a descriptor whose equation string is empty
graphSampleYReadsString(eq, xn, xd) ==
    IF eq.equation = "" THEN Rat(0, 1)
    ELSE IF eq.type = "polynomial" THEN graphY(eq.coefficients, xn, xd)
    ELSE IF eq.type = "trigonometric" THEN trigY(eq.parameters)
    ELSE Rat(0, 1)

\* the y of one sample, by equation type; the else-less chain leaves y = 0
graphSampleY(eq, xn, xd) ==
    IF eq.type = "polynomial" THEN graphY(eq.coefficients, xn, xd)
    ELSE IF eq.type = "trigonometric" THEN trigY(eq.parameters)
    ELSE Rat(0, 1)

\* EquationGraph.generateGraphPoints
generateGraphPoints(eq) ==
    IF eq = Undefined \/ ~Has(eq, "coefficients") THEN Returned(<<>>)
    ELSE IF eq.type = "trigonometric" /\ ~Has(eq, "parameters") THEN TypeError
    ELSE Returned([k \in 1..(GraphSamples + 1) |->
                      [x |-> Rat(k - 1, GraphSamples),
                       y |-> graphSampleY(eq, k - 1, GraphSamples)]])

(***************************************************************************)
(* EnhancedFaceVisualizer: the Bezier evaluation.  Control points have     *)
(* integer coordinates here (a scaled grid).                               *)
(***************************************************************************)
\* a weight that grows with n only
binomialLinear(n, k) == IF k = 0 \/ k = n THEN 1 ELSE n

RECURSIVE binomial(_, _)
binomial(n, k) ==
    IF k = 0 \/ k = n THEN 1
    ELSE IF k > n THEN 0
    ELSE binomial(n - 1, k - 1) + binomial(n - 1, k)

\* t and 1 - t exchanged
bernsteinReversed(n, i, tn, td) == binomial(n, i) * Pow(td - tn, i) * Pow(tn, n - i)

\* b = binomial(n, i) * Math.pow(t, i) * Math.pow(1 - t, n - i), times td^n
bernstein(n, i, tn, td) == binomial(n, i) * Pow(tn, i) * Pow(td - tn, n - i)

RECURSIVE bezierSum(_, _, _, _, _)
\* for (let i = 0; i <= n; i++) x += controlPoints[i][coord] * b
bezierSum(controlPoints, coord, i, tn, td) ==
    LET n == Len(controlPoints) - 1
    IN  IF i <= n
        THEN controlPoints[i + 1][coord] * bernstein(n, i, tn, td)
             + bezierSum(controlPoints, coord, i + 1, tn, td)
        ELSE 0

\* the body of the sampling loop: the curve's point at t = tn / td
bezierPoint(controlPoints, tn, td) ==
    LET den == Pow(td, Len(controlPoints) - 1)
    IN  [x |-> Rat(bezierSum(controlPoints, 1, 0, tn, td), den),
         y |-> Rat(bezierSum(controlPoints, 2, 0, tn, td), den)]

BezierNumPoints == 50
\* for (let t = 0; t <= 1; t += 1/numPoints): in doubles the 50th addition of
\* 1/50 gives 1.0000000000000004, so the loop body runs for t = 0/50 .. 49/50
BezierIterations == 50

\* evaluateBezierCurve(controlPoints, numPoints = 50)
evaluateBezierCurve(controlPoints) ==
    [k \in 1..BezierIterations |-> bezierPoint(controlPoints, k - 1, BezierNumPoints)]

(***************************************************************************)
(* EnhancedFaceVisualizer.generateFeaturePoints.                           *)
(***************************************************************************)
CurvePoint(x, y, feature) == [x |-> x, y |-> y, type |-> "curve", feature |-> feature]

RECURSIVE splineSum(_, _, _, _, _)
\* coefficients.reduce((sum, c, i) => sum + c * Math.pow(t, degree - i), 0), times td^degree
splineSum(coefficients, deg, i, tn, td) ==
    IF i < Len(coefficients)
    THEN coefficients[i + 1] * Pow(tn, deg - i) * Pow(td, i)
         + splineSum(coefficients, deg, i + 1, tn, td)
    ELSE 0

SplineSamples == 50
SplineLast == 49

\* the parameter values dividing by the sample count
splineParamsOverCount == [k \in 1..SplineSamples |-> Rat(k - 1, SplineSamples)]

\* Array.from({ length: 50 }, (_, i) => i / 49)
splineParams == [k \in 1..SplineSamples |-> Rat(k - 1, SplineLast)]

\* the body of t.forEach: x and y from the side's own coefficients and degree
splinePoint(spline, t, feature) ==
    CurvePoint(
        Rat(splineSum(spline.coefficients[1], spline.degree, 0, t[1], t[2]),
            Pow(t[2], spline.degree)),
        Rat(splineSum(spline.coefficients[2], spline.degree, 0, t[1], t[2]),
            Pow(t[2], spline.degree)),
        feature)

\* one side of a piecewise_spline: a point per parameter value
splineSide(spline, feature) ==
    [k \in 1..Len(splineParams) |-> splinePoint(spline, splineParams[k], feature)]

\* 2 * Math.PI and the step 0.1, in units of 1/10000
TwoPiE4 == 62831
EyeStepE4 == 1000
\* the loop taking one more step
EyeSampleIndicesOneMore == {k \in 0..100 : (k - 1) * EyeStepE4 <= TwoPiE4}

\* for (let t = 0; t <= 2 * Math.PI; t += 0.1): the sample indices k, t = k / 10
EyeSampleIndices == {k \in 0..100 : k * EyeStepE4 <= TwoPiE4}

\* the ellipse's coordinate at parameter t, kept as the closed form it is
\* computed from (cos and sin are not evaluated)
EllipseCoord(axis, center, a, b, theta, t) ==
    [axis |-> axis, center |-> center, a |-> a, b |-> b, theta |-> theta, t |-> t]

eyePoints(eq, feature) ==
    LET p == eq.parameters
    IN  [k \in 1..Cardinality(EyeSampleIndices) |->
            CurvePoint(
                EllipseCoord("x", eq.center[1], p.a, p.b, p.theta, Rat(k - 1, 10)),
                EllipseCoord("y", eq.center[2], p.a, p.b, p.theta, Rat(k - 1, 10)),
                feature)]

\* evaluateBezierCurve(...).forEach(point => points.push({...point, type, feature}))
bezierCurvePoints(controlPoints, feature) ==
    LET pts == evaluateBezierCurve(controlPoints)
    IN  [k \in 1..Len(pts) |-> CurvePoint(pts[k].x, pts[k].y, feature)]

lipsPoints(eq, feature) ==
    LET bowSide(side) ==
            LET segment == eq.cupids_bow.segments[side]
            IN  bezierCurvePoints(<<segment.start, segment.control, segment.end>>, feature)
        bow == IF Has(eq, "cupids_bow")
               THEN bowSide("left") \o bowSide("right")
               ELSE <<>>
    IN  bow \o bezierCurvePoints(eq.curves.upper.control_points, feature)
            \o bezierCurvePoints(eq.curves.lower.control_points, feature)

HermiteDen == 20
\* for (let t = 0; t <= 1; t += 0.05): in doubles the 20th addition of 0.05
\* gives 1.0000000000000002, so the body runs for t = 0/20 .. 19/20
HermiteIterations == 20

RECURSIVE hermiteSum(_, _, _)
\* coeffs.slice(0, 4).reduce((sum, c, j) => sum + c * Math.pow(t, 3 - j), 0), times 20^3
hermiteSum(coeffs, j, tn) ==
    IF j < Min(Len(coeffs), 4)
    THEN coeffs[j + 1] * Pow(tn, 3 - j) * Pow(HermiteDen, j) + hermiteSum(coeffs, j + 1, tn)
    ELSE 0

\* the loop body of segment i (0-based) at t = tn / 20:
\* y = y0 + t * (y1 - y0), x = the cubic of coeffs.slice(0, 4) at t
hermitePoint(y_vals, coeffs, i, tn, feature) ==
    LET y0 == y_vals[i + 1]
        y1 == y_vals[i + 2]
    IN  CurvePoint(Rat(hermiteSum(coeffs, 0, tn), Pow(HermiteDen, 3)),
                   Rat(y0 * HermiteDen + tn * (y1 - y0), HermiteDen),
                   feature)

\* the samples of segment i (0-based), between y_vals[i] and y_vals[i + 1]
hermiteSegment(y_vals, coeffs, i, feature) ==
    [k \in 1..HermiteIterations |-> hermitePoint(y_vals, coeffs, i, k - 1, feature)]

RECURSIVE hermiteSegments(_, _, _, _)
hermiteSegments(y_vals, coeffs, i, feature) ==
    IF i < Len(y_vals) - 1
    THEN hermiteSegment(y_vals, coeffs, i, feature)
         \o hermiteSegments(y_vals, coeffs, i + 1, feature)
    ELSE <<>>

\* switch (equation.type): the case label taken
featureBranch(type) ==
    IF type \in {"piecewise_spline", "parametric_eye", "composite_lips", "hermite_spline"}
    THEN type
    ELSE "default"

generateFeaturePoints(feature, eq) ==
    LET branch == featureBranch(eq.type)
    IN  IF branch = "piecewise_spline"
        THEN Returned(splineSide(eq.segments.left, feature)
                      \o splineSide(eq.segments.right, feature))
        ELSE IF branch = "parametric_eye"
        THEN Returned(eyePoints(eq, feature))
        ELSE IF branch = "composite_lips"
        THEN Returned(lipsPoints(eq, feature))
        ELSE IF branch = "hermite_spline"
        THEN Returned(hermiteSegments(eq.parameters.x, eq.parameters.c, 0, feature))
        ELSE [outcome |-> "returned", data |-> <<>>, warned |-> TRUE]

(***************************************************************************)
(* Initial values of the four groups of variables.                         *)
(***************************************************************************)
Null == "null"
NoData == [type |-> "null"]
NaN == [nan |-> TRUE, val |-> 0]
Num(v) == [nan |-> FALSE, val |-> v]
NoRequest == [sent |-> FALSE]

EvalInit ==
    /\ equation \in Descriptors \cup {Undefined}
    /\ points \in LandmarkSets
    /\ evaluator = "none"
    /\ result = NoResult

EvalIdle ==
    /\ equation = Undefined
    /\ points = <<>>
    /\ evaluator = "none"
    /\ result = NoResult

\* FaceEquations: the useState initial values
UIInit ==
    /\ file = Null
    /\ preview = NoData
    /\ loading = FALSE
    /\ error = Null
    /\ landmarks = NoData
    /\ equations = NoData
    /\ selectedFeature = "jawline"
    /\ equationType = "polynomial"
    /\ degree = Num(4)
    /\ pc = "idle"
    /\ request = NoRequest
    /\ inFlight = 0
    /\ component = "FaceEquations"
    /\ landmarkData = NoData

\* EnhancedFaceVisualizer / FaceVisualizer: the useState initial values
VizIdle ==
    /\ faceData = NoData
    /\ showPoints = TRUE
    /\ showCurves = TRUE
    /\ vizSelected = Null

FitIdle ==
    /\ fitRequest = NoRequest
    /\ fitResult = NoData

(***************************************************************************)
(* SpecEval: one evaluator applied to one descriptor.                      *)
(***************************************************************************)
EvalFeature == "outer_lips"

\* FaceVisualizer.allFeatureData, one feature's entry:
\* generateEquationPoints(equation.coefficients)
equationPointsOf(eq) ==
    IF eq = Undefined \/ ~Has(eq, "coefficients") THEN TypeError
    ELSE Returned(generateEquationPoints(eq.coefficients))

Evaluators == {"generateCurvePoints", "generatePlotData", "generateEquationPoints",
               "generateGraphPoints", "generateFeaturePoints", "evaluateBezierCurve"}

\* what evaluator ev returns for descriptor eq
Evaluate(ev, eq, pts) ==
    CASE ev = "generateCurvePoints" -> generateCurvePoints(eq, pts)
      [] ev = "generatePlotData" -> generatePlotData(eq, pts)
      [] ev = "generateEquationPoints" -> equationPointsOf(eq)
      [] ev = "generateGraphPoints" -> generateGraphPoints(eq)
      [] ev = "generateFeaturePoints" -> generateFeaturePoints(EvalFeature, eq)
      [] ev = "evaluateBezierCurve" -> Returned(evaluateBezierCurve(eq.control_points))
      [] OTHER -> NoResult

Run(ev) ==
    /\ evaluator' = ev
    /\ result' = Evaluate(ev, equation, points)
    /\ UNCHANGED <<equation, points, uiVars, vizVars, fitVars>>

RunGenerateCurvePoints == Run("generateCurvePoints")

RunGeneratePlotData == Run("generatePlotData")

RunGenerateEquationPoints == Run("generateEquationPoints")

RunGenerateGraphPoints == Run("generateGraphPoints")

\* allFeatureData calls it for the entries of faceData.equations only
RunGenerateFeaturePoints ==
    /\ equation # Undefined
    /\ Run("generateFeaturePoints")

RunEvaluateBezierCurve ==
    /\ Has(equation, "control_points")
    /\ Run("evaluateBezierCurve")

\* the loop body of evaluateBezierCurve at the parameter value of control
\* point i, t_i = i / (point_count - 1)
RunBezierPoint ==
    /\ Has(equation, "control_points")
    /\ \E i \in 0..(Len(equation.control_points) - 1) :
          /\ evaluator' = "bezierPoint"
          /\ result' = [outcome |-> "returned",
                        data |-> <<bezierPoint(equation.control_points, i,
                                               Len(equation.control_points) - 1)>>,
                        warned |-> FALSE, at |-> i]
    /\ UNCHANGED <<equation, points, uiVars, vizVars, fitVars>>

\* the same descriptor arrives with another human-readable string and the
\* component renders again
Reformat ==
    /\ equation # Undefined
    /\ evaluator \in Evaluators
    /\ \E str \in EquationStrings :
          /\ str # equation.equation
          /\ equation' = [equation EXCEPT !.equation = str]
    /\ result' = Evaluate(evaluator, equation', points)
    /\ UNCHANGED <<points, evaluator, uiVars, vizVars, fitVars>>

EvalNext ==
    \/ RunGenerateCurvePoints
    \/ RunGeneratePlotData
    \/ RunGenerateEquationPoints
    \/ RunGenerateGraphPoints
    \/ RunGenerateFeaturePoints
    \/ RunEvaluateBezierCurve
    \/ RunBezierPoint
    \/ Reformat

InitEval == EvalInit /\ UIInit /\ VizIdle /\ FitIdle

SpecEval == InitEval /\ [][EvalNext]_vars

(***************************************************************************)
(* The Bernstein weights' binomial on its own (SpecBinomial): one call     *)
(* binomial(n, k) with 0 <= k <= n, as the loop over the control points    *)
(* of a curve of n + 1 points makes it.                                    *)
(***************************************************************************)
BinomialCall(n, k) ==
    [outcome |-> "none", data |-> <<>>, warned |-> FALSE, n |-> n, k |-> k]

BinomialInit ==
    /\ equation = Undefined
    /\ points = <<>>
    /\ evaluator = "binomial"
    /\ \E n \in 0..MaxBinomialN, k \in 0..MaxBinomialN :
          k <= n /\ result = BinomialCall(n, k)

RunBinomial ==
    /\ evaluator = "binomial"
    /\ result.outcome = "none"
    /\ result' = [result EXCEPT !.outcome = "returned",
                                !.data = <<binomial(result.n, result.k)>>]
    /\ UNCHANGED <<equation, points, evaluator, uiVars, vizVars, fitVars>>

BinomialNext == RunBinomial

InitBinomial == BinomialInit /\ UIInit /\ VizIdle /\ FitIdle

SpecBinomial == InitBinomial /\ [][BinomialNext]_vars

(***************************************************************************)
(* FaceEquations, the single-request version (Spec).                       *)
(***************************************************************************)
Files == {"a.png", "b.png"}

\* URL.createObjectURL(selectedFile)
createObjectURL(f) == [type |-> "blob", of |-> f]

\* the <option> values of the Equation Type select
EquationTypeOptions == {"polynomial", "trigonometric", "fourier"}

\* what e.target.value of the number input can be: a string of characters
\* ("" when the field is empty or holds no valid number)
DegreeInputs == {<<>>, <<"0">>, <<"7">>, <<"1", "1">>, <<"-", "3">>, <<"2", ".", "5">>}

Digits == <<"0", "1", "2", "3", "4", "5", "6", "7", "8", "9">>
IsDigit(ch) == \E d \in 1..Len(Digits) : Digits[d] = ch
DigitVal(ch) == (CHOOSE d \in 1..Len(Digits) : Digits[d] = ch) - 1

RECURSIVE parseDigits(_, _, _)
parseDigits(str, i, acc) ==
    IF i <= Len(str) /\ IsDigit(str[i])
    THEN parseDigits(str, i + 1, acc * 10 + DigitVal(str[i]))
    ELSE acc

RECURSIVE skipSpaces(_, _)
skipSpaces(str, i) ==
    IF i <= Len(str) /\ str[i] = " " THEN skipSpaces(str, i + 1) ELSE i

\* parseInt(string): leading blanks, an optional sign, then the longest run of
\* decimal digits; NaN when there is no digit
parseInt(str) ==
    LET i0 == skipSpaces(str, 1)
        signed == i0 <= Len(str) /\ str[i0] \in {"-", "+"}
        i1 == IF signed THEN i0 + 1 ELSE i0
    IN  IF i1 <= Len(str) /\ IsDigit(str[i1])
        THEN Num((IF signed /\ str[i0] = "-" THEN -1 ELSE 1) * parseDigits(str, i1, 0))
        ELSE NaN

\* the response bodies of POST /api/face/upload: landmarks for the nine
\* features and an equation for each feature that could be fitted
UIDescriptor == [type |-> "polynomial", equation |-> CanonicalString,
                 coefficients |-> <<2, 0, -1>>]
ResponseData(missing) ==
    [landmarks |-> [f \in Features |-> CHOOSE pts \in LandmarkSets : TRUE],
     equations |-> [f \in Features \ missing |-> UIDescriptor]]
UIResponses == {ResponseData({}), ResponseData({"nose_tip"})}

\* {features.map(feature => ... equations[feature].equation ...)}: the
\* equation list, rendered when `equations` is set
equationList(eqs) ==
    IF eqs = NoData THEN [outcome |-> "hidden", items |-> <<>>]
    ELSE IF \E i \in 1..Len(features) : features[i] \notin DOMAIN eqs
    THEN [outcome |-> "TypeError", items |-> <<>>]
    ELSE [outcome |-> "rendered",
          items |-> [i \in 1..Len(features) |->
                        [feature |-> features[i], text |-> eqs[features[i]].equation]]]

\* the single-request component is on screen: it is the one mounted and no
\* render has thrown
Mounted ==
    /\ component = "FaceEquations"
    /\ equationList(equations).outcome # "TypeError"

\* FaceEquations.generatePlotData for the current state
plotData ==
    IF landmarks = NoData \/ equations = NoData THEN Returned(<<>>)
    ELSE IF selectedFeature \notin DOMAIN landmarks
            \/ selectedFeature \notin DOMAIN equations THEN Returned(<<>>)
    ELSE generatePlotData(equations[selectedFeature], landmarks[selectedFeature])

handleFileChange ==
    /\ Mounted
    /\ \E selectedFile \in Files :
          /\ file' = selectedFile
          /\ preview' = createObjectURL(selectedFile)
    /\ error' = Null
    /\ UNCHANGED <<loading, landmarks, equations, selectedFeature, equationType,
                   degree, pc, request, evalVars, vizVars, fitVars, inFlight, mountVars>>

\* onChange of the Equation Type select
setEquationType ==
    /\ Mounted
    /\ \E value \in EquationTypeOptions : equationType' = value
    /\ UNCHANGED <<file, preview, loading, error, landmarks, equations,
                   selectedFeature, degree, pc, request, evalVars, vizVars, fitVars, inFlight, mountVars>>

\* onChange of the Degree/Terms input: setDegree(parseInt(e.target.value))
setDegree ==
    /\ Mounted
    /\ \E value \in DegreeInputs : degree' = parseInt(value)
    /\ UNCHANGED <<file, preview, loading, error, landmarks, equations,
                   selectedFeature, equationType, pc, request, evalVars, vizVars,
                   fitVars, inFlight, mountVars>>

\* onClick of an entry of the equation list
setSelectedFeature ==
    /\ Mounted
    /\ equations # NoData
    /\ \E feature \in Features : selectedFeature' = feature
    /\ UNCHANGED <<file, preview, loading, error, landmarks, equations,
                   equationType, degree, pc, request, evalVars, vizVars, fitVars, inFlight, mountVars>>

\* <button onClick={uploadImage} disabled={loading}>
buttonDisabled == loading

\* onClick of Generate Equations (rendered with the preview, disabled while
\* loading): uploadImage up to its first await
uploadImage ==
    /\ Mounted
    /\ preview # NoData
    /\ ~buttonDisabled
    /\ file # Null
    /\ loading' = TRUE
    /\ error' = Null
    /\ request' = [sent |-> TRUE, file |-> file, equation_type |-> equationType,
                   degree |-> degree]
    /\ pc' = "fetch"
    /\ inFlight' = inFlight + 1
    /\ UNCHANGED <<file, preview, landmarks, equations, selectedFeature,
                   equationType, degree, evalVars, vizVars, fitVars, mountVars>>

\* fetch rejects (network error): catch, then finally
fetchRejects ==
    /\ pc = "fetch"
    /\ error' = "Failed to fetch"
    /\ loading' = FALSE
    /\ pc' = "idle"
    /\ request' = NoRequest
    /\ inFlight' = inFlight - 1
    /\ UNCHANGED <<file, preview, landmarks, equations, selectedFeature,
                   equationType, degree, evalVars, vizVars, fitVars, mountVars>>

\* a non-ok response taken without a throw: only the finally block runs
responseNotOkSilent ==
    /\ pc = "fetch"
    /\ loading' = FALSE
    /\ pc' = "idle"
    /\ request' = NoRequest
    /\ inFlight' = inFlight - 1
    /\ UNCHANGED <<error, file, preview, landmarks, equations, selectedFeature,
                   equationType, degree, evalVars, vizVars, fitVars, mountVars>>

\* the response is not ok: throw new Error('Failed to process image')
responseNotOk ==
    /\ pc = "fetch"
    /\ error' = "Failed to process image"
    /\ loading' = FALSE
    /\ pc' = "idle"
    /\ request' = NoRequest
    /\ inFlight' = inFlight - 1
    /\ UNCHANGED <<file, preview, landmarks, equations, selectedFeature,
                   equationType, degree, evalVars, vizVars, fitVars, mountVars>>

\* the response is ok: await response.json()
responseOk ==
    /\ pc = "fetch"
    /\ pc' = "json"
    /\ UNCHANGED <<file, preview, loading, error, landmarks, equations,
                   selectedFeature, equationType, degree, request, evalVars,
                   vizVars, fitVars, inFlight, mountVars>>

\* response.json() rejects: catch, then finally
jsonRejects ==
    /\ pc = "json"
    /\ error' = "Unexpected token in JSON"
    /\ loading' = FALSE
    /\ pc' = "idle"
    /\ request' = NoRequest
    /\ inFlight' = inFlight - 1
    /\ UNCHANGED <<file, preview, landmarks, equations, selectedFeature,
                   equationType, degree, evalVars, vizVars, fitVars, mountVars>>

\* response.json() resolves: setLandmarks, setEquations, then finally
jsonResolves ==
    /\ pc = "json"
    /\ \E data \in UIResponses :
          /\ landmarks' = data.landmarks
          /\ equations' = data.equations
    /\ loading' = FALSE
    /\ pc' = "idle"
    /\ request' = NoRequest
    /\ inFlight' = inFlight - 1
    /\ UNCHANGED <<file, preview, error, selectedFeature, equationType, degree,
                   evalVars, vizVars, fitVars, mountVars>>

Next ==
    \/ handleFileChange
    \/ setEquationType
    \/ setDegree
    \/ setSelectedFeature
    \/ uploadImage
    \/ fetchRejects
    \/ responseNotOk
    \/ responseOk
    \/ jsonRejects
    \/ jsonResolves

Init == EvalIdle /\ UIInit /\ VizIdle /\ FitIdle

Spec == Init /\ [][Next]_vars

(***************************************************************************)
(* FaceEquations, two-step version: choosing a file starts the upload,     *)
(* which posts the file to /api/face/analyze and then, with equation_type  *)
(* and degree, to /api/face/upload.                                        *)
(***************************************************************************)
\* the body of an ok response for the image it was computed from
AnalyzeResponses(image) ==
    {[landmarks |-> ResponseData({}).landmarks,
      image_dimensions |-> [width |-> 2, height |-> 2], image |-> image]}
EquationResponses(image) ==
    {[landmarks |-> data.landmarks, equations |-> data.equations, image |-> image] :
        data \in UIResponses}

\* what the two-step uploadImage never writes
twoStepFixed == <<landmarks, equations, selectedFeature, equationType, degree,
                  component, showPoints, showCurves, vizSelected, evalVars, fitVars>>

\* a control that stays enabled
neverDisabled == FALSE

\* <input type="file" onChange={handleFileChange} disabled={loading} />
fileInputDisabled == loading

\* handleFileChange with a file chosen, and its call uploadImage(selectedFile)
\* up to the first await: the analyze request is sent
twoStepHandleFileChange ==
    /\ component = "FaceEquationsTwoStep"
    /\ ~fileInputDisabled
    /\ \E selectedFile \in Files :
          /\ file' = selectedFile
          /\ preview' = createObjectURL(selectedFile)
          /\ request' = [sent |-> TRUE, endpoint |-> "/api/face/analyze",
                         file |-> selectedFile]
    /\ loading' = TRUE
    /\ error' = Null
    /\ pc' = "analyze"
    /\ inFlight' = inFlight + 1
    /\ UNCHANGED <<faceData, landmarkData, twoStepFixed>>

\* the catch block without the finally block
twoStepFailsLoadingKept(message) ==
    /\ error' = message
    /\ pc' = "idle"
    /\ request' = NoRequest
    /\ inFlight' = inFlight - 1
    /\ UNCHANGED <<loading, file, preview, faceData, landmarkData, twoStepFixed>>

\* catch (err) { setError(err.message) } finally { setLoading(false) }
twoStepFails(message) ==
    /\ error' = message
    /\ loading' = FALSE
    /\ pc' = "idle"
    /\ request' = NoRequest
    /\ inFlight' = inFlight - 1
    /\ UNCHANGED <<file, preview, faceData, landmarkData, twoStepFixed>>

\* the analyze fetch rejects (network error)
analyzeRejects ==
    /\ pc = "analyze"
    /\ twoStepFails("Failed to fetch")

\* !analyzeResponse.ok
analyzeNotOk ==
    /\ pc = "analyze"
    /\ twoStepFails("Failed to analyze image")

\* analyzeResponse.ok: await analyzeResponse.json()
analyzeOk ==
    /\ pc = "analyze"
    /\ pc' = "analyzeJson"
    /\ UNCHANGED <<file, preview, loading, error, request, inFlight, faceData,
                   landmarkData, twoStepFixed>>

analyzeJsonRejects ==
    /\ pc = "analyzeJson"
    /\ twoStepFails("Unexpected token in JSON")

\* the equations request sent as soon as the analyze request is
analyzeJsonResolvesUnread ==
    /\ pc = "analyze"
    /\ request' = [sent |-> TRUE, endpoint |-> "/api/face/upload",
                   file |-> request.file, equation_type |-> equationType,
                   degree |-> degree]
    /\ pc' = "equations"
    /\ UNCHANGED <<file, preview, loading, error, inFlight, faceData, landmarkData,
                   twoStepFixed>>

\* setLandmarkData(analyzeData), then the equations request is sent
analyzeJsonResolves ==
    /\ pc = "analyzeJson"
    /\ \E analyzeData \in AnalyzeResponses(request.file) :
          landmarkData' = analyzeData
    /\ request' = [sent |-> TRUE, endpoint |-> "/api/face/upload",
                   file |-> request.file, equation_type |-> equationType,
                   degree |-> degree]
    /\ pc' = "equations"
    /\ UNCHANGED <<file, preview, loading, error, inFlight, faceData, twoStepFixed>>

\* the equations fetch rejects
equationsRejects ==
    /\ pc = "equations"
    /\ twoStepFails("Failed to fetch")

\* !equationResponse.ok
equationsNotOk ==
    /\ pc = "equations"
    /\ twoStepFails("Failed to generate equations")

\* equationResponse.ok: await equationResponse.json()
equationsOk ==
    /\ pc = "equations"
    /\ pc' = "equationsJson"
    /\ UNCHANGED <<file, preview, loading, error, request, inFlight, faceData,
                   landmarkData, twoStepFixed>>

equationsJsonRejects ==
    /\ pc = "equationsJson"
    /\ twoStepFails("Unexpected token in JSON")

\* setFaceData(equationData), then finally
equationsJsonResolves ==
    /\ pc = "equationsJson"
    /\ \E equationData \in EquationResponses(request.file) :
          faceData' = equationData
    /\ loading' = FALSE
    /\ pc' = "idle"
    /\ request' = NoRequest
    /\ inFlight' = inFlight - 1
    /\ UNCHANGED <<file, preview, error, landmarkData, twoStepFixed>>

TwoStepNext ==
    \/ twoStepHandleFileChange
    \/ analyzeRejects
    \/ analyzeNotOk
    \/ analyzeOk
    \/ analyzeJsonRejects
    \/ analyzeJsonResolves
    \/ equationsRejects
    \/ equationsNotOk
    \/ equationsOk
    \/ equationsJsonRejects
    \/ equationsJsonResolves

\* the two-step version's useState initial values
TwoStepInit ==
    /\ file = Null
    /\ preview = NoData
    /\ loading = FALSE
    /\ error = Null
    /\ faceData = NoData
    /\ landmarkData = NoData
    /\ equationType = "polynomial"
    /\ degree = Num(4)
    /\ landmarks = NoData
    /\ equations = NoData
    /\ selectedFeature = "jawline"
    /\ pc = "idle"
    /\ request = NoRequest
    /\ inFlight = 0
    /\ component = "FaceEquationsTwoStep"
    /\ showPoints = TRUE
    /\ showCurves = TRUE
    /\ vizSelected = Null

(***************************************************************************)
(* Either FaceEquations on the page (SpecUpload), and the same with every  *)
(* pending request settling and every response body read (FairUpload).    *)
(***************************************************************************)
UploadNext ==
    \/ Next
    \/ TwoStepNext

InitUpload ==
    /\ EvalIdle
    /\ FitIdle
    /\ \/ UIInit /\ VizIdle
       \/ TwoStepInit

SpecUpload == InitUpload /\ [][UploadNext]_vars

\* a pending request settles and a pending body read completes
Settle ==
    \/ fetchRejects \/ responseNotOk \/ responseOk \/ jsonRejects \/ jsonResolves
    \/ analyzeRejects \/ analyzeNotOk \/ analyzeOk
    \/ analyzeJsonRejects \/ analyzeJsonResolves
    \/ equationsRejects \/ equationsNotOk \/ equationsOk
    \/ equationsJsonRejects \/ equationsJsonResolves

FairUpload == SpecUpload /\ WF_vars(Settle)

(***************************************************************************)
(* The visualizers over a whole result (SpecViz): EnhancedFaceVisualizer's *)
(* state and FaceVisualizer's rendering of the same faceData.              *)
(***************************************************************************)
getFeatureColor(feature) ==
    CASE feature = "jawline" -> "#2563eb"
      [] feature \in {"right_eyebrow", "left_eyebrow"} -> "#16a34a"
      [] feature \in {"nose_bridge", "nose_tip"} -> "#dc2626"
      [] feature \in {"right_eye", "left_eye"} -> "#4f46e5"
      [] feature \in {"outer_lips", "inner_lips"} -> "#db2777"
      [] OTHER -> "#000000"

\* the keys of an object, in insertion order (the order of `features`)
RECURSIVE keysFrom(_, _)
keysFrom(obj, i) ==
    IF i > Len(features) THEN <<>>
    ELSE (IF features[i] \in DOMAIN obj THEN <<features[i]>> ELSE <<>>)
         \o keysFrom(obj, i + 1)
keys(obj) == keysFrom(obj, 1)

\* results the visualizers are given: every feature fitted by a polynomial,
\* or each feature by the curve family EnhancedFaceVisualizer draws for it
PolynomialEquation(f) == UIDescriptor
StrategyEquation(f) ==
    CASE f = "jawline" -> CHOOSE d \in PiecewiseSplineDescs : TRUE
      [] f \in {"right_eye", "left_eye"} -> CHOOSE d \in ParametricEyeDescs : TRUE
      [] f \in {"outer_lips", "inner_lips"} ->
            CHOOSE d \in CompositeLipsDescs : Has(d, "cupids_bow")
      [] f = "nose_bridge" -> CHOOSE d \in HermiteDescs : TRUE
      [] OTHER -> UIDescriptor

VizLandmarks == [f \in Features |-> CHOOSE pts \in LandmarkSets : TRUE]
MissingSets == {{}} \cup {{f} : f \in Features}
VizPayloads ==
    {[landmarks |-> VizLandmarks,
      equations |-> [f \in Features \ missing |-> PolynomialEquation(f)]] :
        missing \in MissingSets}
    \cup
    {[landmarks |-> VizLandmarks,
      equations |-> [f \in Features \ missing |-> StrategyEquation(f)]] :
        missing \in MissingSets}

\* !faceData?.landmarks || !faceData?.equations
NoFaceData(fd) == fd = NoData \/ ~Has(fd, "landmarks") \/ ~Has(fd, "equations")

RECURSIVE fvEntries(_, _, _, _)
\* FaceVisualizer: Object.entries(faceData.landmarks).map(([feature, points]) => ...)
fvEntries(fd, ks, showC, showP) ==
    IF ks = <<>> THEN Returned(<<>>)
    ELSE LET feature == Head(ks)
             eq == IF feature \in DOMAIN fd.equations
                   THEN fd.equations[feature] ELSE Undefined
             curvePoints == equationPointsOf(eq)
             rest == fvEntries(fd, Tail(ks), showC, showP)
         IN  IF curvePoints.outcome = "TypeError" \/ rest.outcome = "TypeError"
             THEN TypeError
             ELSE Returned(
                    <<[feature |-> feature,
                       data |-> (IF showC THEN curvePoints.data ELSE <<>>)
                                \o (IF showP THEN landmarkPoints(fd.landmarks[feature])
                                    ELSE <<>>),
                       color |-> getFeatureColor(feature)]>>
                    \o rest.data)

\* FaceVisualizer.allFeatureData
FaceVisualizer_allFeatureData(fd, showC, showP) ==
    IF NoFaceData(fd) THEN [outcome |-> "alert", data |-> <<>>, warned |-> FALSE]
    ELSE fvEntries(fd, keys(fd.landmarks), showC, showP)

\* faceData.landmarks[feature].map(([x, y]) => ({ x, y, type: 'point', feature }))
originalPointsOf(pts, feature) ==
    [k \in 1..Len(pts) |->
        [x |-> pts[k][1], y |-> pts[k][2], type |-> "point", feature |-> feature]]

RECURSIVE efvEntries(_, _, _, _)
\* EnhancedFaceVisualizer: Object.entries(faceData.equations).flatMap(...)
efvEntries(fd, ks, showC, showP) ==
    IF ks = <<>> THEN Returned(<<>>)
    ELSE LET feature == Head(ks)
             curvePoints == IF showC
                            THEN generateFeaturePoints(feature, fd.equations[feature])
                            ELSE Returned(<<>>)
             rest == efvEntries(fd, Tail(ks), showC, showP)
         IN  IF (showP /\ feature \notin DOMAIN fd.landmarks)
                \/ curvePoints.outcome = "TypeError" \/ rest.outcome = "TypeError"
             THEN TypeError
             ELSE [outcome |-> "returned",
                   data |-> curvePoints.data
                            \o (IF showP
                                THEN originalPointsOf(fd.landmarks[feature], feature)
                                ELSE <<>>)
                            \o rest.data,
                   warned |-> curvePoints.warned \/ rest.warned]

\* EnhancedFaceVisualizer.allFeatureData
allFeatureData(fd, showC, showP) ==
    IF NoFaceData(fd) THEN Returned(<<>>)
    ELSE efvEntries(fd, keys(fd.equations), showC, showP)

\* a <Line> for every feature, selected or not
drawnLinesUnfiltered(fd, selected) == keys(fd.equations)

\* the features a <Line> is drawn for:
\* Object.keys(faceData.equations).filter(f => !selectedFeature || f === selectedFeature)
drawnLines(fd, selected) ==
    SelectSeq(keys(fd.equations), LAMBDA f : selected = Null \/ f = selected)

\* the data of feature's <Line>: allFeatureData.filter(point => point.feature === feature)
lineData(fd, showC, showP, feature) ==
    SelectSeq(allFeatureData(fd, showC, showP).data, LAMBDA pt : pt.feature = feature)

VizInit ==
    /\ faceData \in VizPayloads
    /\ showPoints = TRUE
    /\ showCurves = TRUE
    /\ vizSelected = Null

\* onClick of Show/Hide Points
setShowPoints ==
    /\ showPoints' = ~showPoints
    /\ UNCHANGED <<faceData, showCurves, vizSelected, evalVars, uiVars, fitVars>>

\* onClick of Show/Hide Curves
setShowCurves ==
    /\ showCurves' = ~showCurves
    /\ UNCHANGED <<faceData, showPoints, vizSelected, evalVars, uiVars, fitVars>>

\* onClick of a feature button:
\* setSelectedFeature(selectedFeature === feature ? null : feature)
clickFeature ==
    /\ \E feature \in DOMAIN faceData.equations :
          vizSelected' = IF vizSelected = feature THEN Null ELSE feature
    /\ UNCHANGED <<faceData, showPoints, showCurves, evalVars, uiVars, fitVars>>

\* the parent renders the component with another result (setFaceData)
receiveFaceData ==
    /\ \E data \in VizPayloads :
          /\ data # faceData
          /\ faceData' = data
    /\ UNCHANGED <<showPoints, showCurves, vizSelected, evalVars, uiVars, fitVars>>

VizNext ==
    \/ setShowPoints
    \/ setShowCurves
    \/ clickFeature
    \/ receiveFaceData

InitViz == EvalIdle /\ UIInit /\ VizInit /\ FitIdle

SpecViz == InitViz /\ [][VizNext]_vars

\* the component under its own buttons alone, faceData as it was mounted with
VizEvents ==
    \/ setShowPoints
    \/ setShowCurves
    \/ clickFeature

SpecVizEvents == InitViz /\ [][VizEvents]_vars

(***************************************************************************)
(* The fitting core behind POST /api/face/upload (SpecFit): one feature's  *)
(* landmark set fitted under a request configuration.  The solver's        *)
(* numbers are not modelled: a coefficient is the power it multiplies.     *)
(***************************************************************************)
MinPoints == 3
MaxPoints == 6        \* most landmark points of a feature drawn

FitTypes == {"polynomial", "trigonometric", "fourier", "auto"}

\* the fitters refuse a landmark set of two points
enoughPointsLax(num_points) == num_points >= 2

\* a landmark set can be fitted: it has at least three points
enoughPoints(num_points) == num_points >= MinPoints

\* the requested degree taken as it is
clampDegreeAbsent(requested_degree, num_points) == requested_degree

\* min(requested_degree, num_points - 1)
clampDegree(requested_degree, num_points) == Min(requested_degree, num_points - 1)

\* the coefficients a solve for `count` unknowns returns, highest power first
solved(count) == [k \in 1..count |-> [power |-> count - k]]

polynomialFit(num_points, requested_degree) ==
    [type |-> "polynomial",
     coefficients |-> solved(clampDegree(requested_degree, num_points) + 1)]

\* offset + one (sin, cos) pair per harmonic, the harmonics clamped like a degree
trigonometricFit(tag, num_points, requested_terms) ==
    [type |-> tag,
     parameters |-> solved(2 * clampDegree(requested_terms, num_points) + 1)]

\* one Hermite segment per adjacent point pair
hermiteFit(num_points) == [type |-> "hermite_spline", segments |-> num_points - 1]

ellipseFit(num_points) == [type |-> "parametric_ellipse", points |-> num_points]

\* interpolating mode: the landmarks are the control points
bezierFit(num_points) == [type |-> "bezier", control_points |-> num_points]

\* the jawline split at its midpoint index, the lips at their corners
piecewiseFit(feature, num_points) ==
    [type |-> "piecewise", split |-> num_points \div 2,
     pieces |-> IF feature = "jawline" THEN <<"hermite_spline", "hermite_spline">>
                ELSE <<"bezier", "bezier", "bezier", "bezier">>]

\* the strategy table
tableStrategies(feature) ==
    CASE feature = "jawline" -> {"piecewise"}
      [] feature \in {"left_eyebrow", "right_eyebrow"} -> {"polynomial"}
      [] feature = "nose_bridge" -> {"hermite_spline"}
      [] feature = "nose_tip" -> {"polynomial", "bezier"}
      [] feature \in {"left_eye", "right_eye"} -> {"parametric_ellipse"}
      [] feature \in {"outer_lips", "inner_lips"} -> {"piecewise"}

\* the features whose table entry is a family fitter
FamilyFeatures == {"left_eyebrow", "right_eyebrow", "nose_tip", "nose_bridge"}

\* the selector follows an explicit hint for every feature
selectStrategiesFollowsHint(feature, equation_type) ==
    IF equation_type # "auto" THEN {equation_type} ELSE tableStrategies(feature)

\* the strategies the selector may pick (nose_tip's choice by point count is
\* left open)
selectStrategies(feature, equation_type) ==
    IF equation_type # "auto" /\ feature \in FamilyFeatures
    THEN {equation_type}
    ELSE tableStrategies(feature)

fitWith(strategy, feature, num_points, deg) ==
    CASE strategy = "polynomial" -> polynomialFit(num_points, deg)
      [] strategy \in {"trigonometric", "fourier"} -> trigonometricFit(strategy, num_points, deg)
      [] strategy = "hermite_spline" -> hermiteFit(num_points)
      [] strategy = "parametric_ellipse" -> ellipseFit(num_points)
      [] strategy = "bezier" -> bezierFit(num_points)
      [] strategy = "piecewise" -> piecewiseFit(feature, num_points)

FitRequests ==
    {[sent |-> TRUE, feature_key |-> feature, num_points |-> num_points,
      equation_type |-> equation_type, degree |-> deg] :
        feature \in Features, num_points \in 2..MaxPoints,
        equation_type \in FitTypes, deg \in DegreeMin..DegreeMax}

\* one feature of a fit request is fitted
fitFeature ==
    /\ fitRequest.sent
    /\ fitResult = NoData
    /\ IF ~enoughPoints(fitRequest.num_points)
       THEN fitResult' = [type |-> "error", kind |-> "InsufficientPointsError",
                          feature_key |-> fitRequest.feature_key,
                          equation_type |-> fitRequest.equation_type,
                          degree |-> fitRequest.degree]
       ELSE \E strategy \in selectStrategies(fitRequest.feature_key,
                                             fitRequest.equation_type) :
                fitResult' = [type |-> "descriptor",
                              feature_key |-> fitRequest.feature_key,
                              strategy |-> strategy,
                              descriptor |-> fitWith(strategy, fitRequest.feature_key,
                                                     fitRequest.num_points,
                                                     fitRequest.degree)]
    /\ UNCHANGED <<fitRequest, evalVars, uiVars, vizVars>>

FitNext == fitFeature

\* a request has arrived and is not fitted yet
FitInit ==
    /\ fitRequest \in FitRequests
    /\ fitResult = NoData

InitFit == EvalIdle /\ UIInit /\ VizIdle /\ FitInit

SpecFit == InitFit /\ [][FitNext]_vars

(***************************************************************************)
(* Properties of the evaluators (SpecEval).                                *)
(***************************************************************************)

\* C1: for every tag of the data model, generateFeaturePoints selects a
\* matching evaluation and returns curve points; none reaches the default
\* branch (the console.warn).
C1_ExhaustiveDispatch ==
    (evaluator = "generateFeaturePoints" /\ equation.type \in DataModelTags)
        => (result.outcome = "returned" /\ ~result.warned /\ Len(result.data) > 0)

\* the type tags EquationGraph's if-chain names
GraphHandled == {"polynomial", "trigonometric"}

\* C2: a type outside the handled set ends generateFeaturePoints and
\* generateGraphPoints in an error, never in a returned (default or empty)
\* curve.
C2_UnknownTypeRejected ==
    /\ (evaluator = "generateFeaturePoints" /\ featureBranch(equation.type) = "default")
           => result.outcome = "TypeError"
    /\ (evaluator = "generateGraphPoints" /\ equation # Undefined
            /\ equation.type \notin GraphHandled)
           => result.outcome = "TypeError"

XVals == (0 - MaxAbsX)..MaxAbsX

RECURSIVE HornerFrom(_, _, _, _, _)
\* Horner's rule over x = xn / xd, times xd^(Len(c) - 1):
\* acc_j = acc_(j-1) * xn + c[j] * xd^(j-1)
HornerFrom(c, j, acc, xn, xd) ==
    IF j > Len(c) THEN acc
    ELSE HornerFrom(c, j + 1, acc * xn + c[j] * Pow(xd, j - 1), xn, xd)

Horner(c, xn, xd) == Rat(HornerFrom(c, 1, 0, xn, xd), PolyDen(c, xd))

RECURSIVE DegreeSum(_, _, _)
\* sum over j of c[j] * x^(n-1-j), j = 0..n-1 (c[j] is the model's c[j + 1])
DegreeSum(c, j, x) ==
    IF j >= Len(c) THEN 0
    ELSE c[j + 1] * Pow(x, Len(c) - 1 - j) + DegreeSum(c, j + 1, x)

PolynomialEvaluators == {"generateCurvePoints", "generatePlotData",
                         "generateEquationPoints", "generateGraphPoints"}
SamplesOf(ev) ==
    CASE ev = "generateCurvePoints" -> CurveSamples
      [] ev = "generatePlotData" -> PlotSamples
      [] ev = "generateEquationPoints" -> EquationSamples
      [] ev = "generateGraphPoints" -> GraphSamples

\* C3: coefficients are ordered highest degree first: at every integer x each
\* polynomial evaluator returns sum_j c[j] * x^(n-1-j), the Horner value, and
\* every sample of a returned curve carries the Horner value at its x.
C3_PolynomialHighestFirst ==
    (equation # Undefined /\ equation.type = "polynomial") =>
        LET c == equation.coefficients
        IN  /\ \A x \in XVals :
                /\ Horner(c, x, 1) = Rat(DegreeSum(c, 0, x), 1)
                /\ curveY(c, x, 1) = Horner(c, x, 1)
                /\ plotY(c, x, 1) = Horner(c, x, 1)
                /\ equationY(c, x, 1) = Horner(c, x, 1)
                /\ graphSampleY(equation, x, 1) = Horner(c, x, 1)
            /\ evaluator \in PolynomialEvaluators =>
                /\ result.outcome = "returned"
                /\ \A i \in 0..SamplesOf(evaluator) :
                      /\ result.data[i + 1].x = Rat(i, SamplesOf(evaluator))
                      /\ result.data[i + 1].y = Horner(c, i, SamplesOf(evaluator))

C3_Witness ==
    /\ evaluator = "generateEquationPoints"
    /\ equation # Undefined
    /\ equation.type = "polynomial"
    /\ equation.coefficients = <<2, 0, -1>>
    /\ result.outcome = "returned"
    /\ result.data[EquationSamples + 1].y = Rat(Pow(EquationSamples, 2), Pow(EquationSamples, 2))

\* C4: in a trigonometric descriptor [offset, sin_1, cos_1, ..., sin_K, cos_K]
\* the pair stored at positions (2k-1, 2k) is multiplied by sin(k*pi*x) and
\* cos(k*pi*x), for every k in 1..K, and every pair contributes.
C4_HarmonicIndexIsPairIndex ==
    (evaluator = "generateGraphPoints" /\ equation # Undefined
        /\ equation.type = "trigonometric" /\ Len(result.data) > 0) =>
        LET p == equation.parameters
            K == (Len(p) - 1) \div 2
        IN  \A s \in 1..Len(result.data) :
                LET y == result.data[s].y
                IN  /\ y.offset = p[1]
                    /\ Len(y.terms) = 2 * K
                    /\ \A k \in 1..K :
                          /\ y.terms[2 * k - 1] = TrigTerm(p[2 * k], "sin", k)
                          /\ y.terms[2 * k] = TrigTerm(p[2 * k + 1], "cos", k)

\* the point evaluated at control point i's parameter value is control point i
AtControlPoint(i) ==
    LET cp == equation.control_points
        pt == result.data[1]
    IN  /\ RatEq(pt.x, Rat(cp[i + 1][1], 1))
        /\ RatEq(pt.y, Rat(cp[i + 1][2], 1))

\* C5 as stated: with the landmarks as control points, the curve evaluated at
\* t_i = i / (point_count - 1) is landmark i, for every i.
C5_BezierInterpolatesLandmarks ==
    evaluator = "bezierPoint" => AtControlPoint(result.at)

\* C5 amended: with the landmarks as control points, the curve evaluated at
\* t = 0 is the first landmark and at t = 1 the last one; the points at the
\* interior parameter values need not be the interior landmarks.
C5_BezierInterpolatesEndpoints ==
    (evaluator = "bezierPoint"
        /\ result.at \in {0, Len(equation.control_points) - 1})
        => AtControlPoint(result.at)

C5_Witness ==
    /\ evaluator = "bezierPoint"
    /\ equation.control_points = <<<<0, 0>>, <<1, 2>>, <<2, 0>>>>
    /\ result.at = 2
    /\ result.data[1] = [x |-> Rat(8, 4), y |-> Rat(0, 4)]

\* C8: two descriptors that differ only in the human-readable equation string
\* give the same curve points, whichever evaluator runs.
C8_FormattingDoesNotAffectEvaluation ==
    (evaluator \in Evaluators /\ equation # Undefined) =>
        \A str \in EquationStrings :
            Evaluate(evaluator, [equation EXCEPT !.equation = str], points) = result

C8_Witness ==
    /\ evaluator = "generateGraphPoints"
    /\ equation # Undefined
    /\ equation.type = "polynomial"
    /\ equation.equation = ""
    /\ Len(result.data) = GraphSamples + 1

(***************************************************************************)
(* Properties of the upload component (Spec).                              *)
(***************************************************************************)
RequestTypes == {"polynomial", "trigonometric", "fourier", "auto"}

\* C6: every fit request sent carries an equation_type of the request
\* configuration and a degree in [1, 10], whatever was typed into the
\* Degree/Terms input.
C6_RequestDegreeInRange ==
    request.sent =>
        /\ request.equation_type \in RequestTypes
        /\ ~request.degree.nan
        /\ request.degree.val >= DegreeMin
        /\ request.degree.val <= DegreeMax

(***************************************************************************)
(* Properties of the visualizers (SpecViz).                                *)
(***************************************************************************)
\* landmarks for all nine features, an equation for all but one
PartialResult(fd) ==
    /\ DOMAIN fd.landmarks = Features
    /\ DOMAIN fd.equations \subseteq Features
    /\ Cardinality(Features \ DOMAIN fd.equations) = 1

\* C7: a result whose equations lack the entry of one feature is displayed
\* for the remaining features: no renderer of the result throws, and every
\* remaining feature is in what is displayed.
C7_PartialResultDisplayed ==
    (PartialResult(faceData)
        /\ \A f \in DOMAIN faceData.equations : Has(faceData.equations[f], "coefficients"))
    => /\ LET list == equationList(faceData.equations)
          IN  /\ list.outcome = "rendered"
              /\ \A f \in DOMAIN faceData.equations :
                    \E i \in 1..Len(list.items) : list.items[i].feature = f
       /\ LET fv == FaceVisualizer_allFeatureData(faceData, showCurves, showPoints)
          IN  /\ fv.outcome = "returned"
              /\ \A f \in DOMAIN faceData.equations :
                    \E i \in 1..Len(fv.data) : fv.data[i].feature = f
       /\ allFeatureData(faceData, showCurves, showPoints).outcome = "returned"

(***************************************************************************)
(* Properties of the fitting core (SpecFit).                               *)
(***************************************************************************)

\* C9: for a requested degree d >= 1 and n >= 3 points the polynomial
\* fitter's descriptor has exactly min(d, n - 1) + 1 coefficients: the fitted
\* degree exceeds neither n - 1 nor d.
C9_PolynomialDegreeClamped ==
    (fitResult.type = "descriptor" /\ fitResult.descriptor.type = "polynomial") =>
        LET d == fitRequest.degree
            n == fitRequest.num_points
            count == Len(fitResult.descriptor.coefficients)
        IN  /\ count = (IF d < n - 1 THEN d ELSE n - 1) + 1
            /\ count - 1 <= n - 1
            /\ count - 1 <= d

C9_Witness ==
    /\ fitResult.type = "descriptor"
    /\ fitResult.descriptor.type = "polynomial"
    /\ fitRequest.degree = DegreeMax
    /\ fitRequest.num_points = 4
    /\ Len(fitResult.descriptor.coefficients) = 4

\* C10: a fit request for a feature with 2 landmark points ends with
\* InsufficientPointsError for that feature and no descriptor, for every
\* equation_type and degree.
C10_TwoPointsInsufficient ==
    (fitRequest.sent /\ fitRequest.num_points = 2 /\ fitResult # NoData) =>
        /\ fitResult.type = "error"
        /\ fitResult.kind = "InsufficientPointsError"
        /\ fitResult.feature_key = fitRequest.feature_key
        /\ ~Has(fitResult, "descriptor")

C10_Witness ==
    /\ fitRequest.sent
    /\ fitRequest.num_points = 2
    /\ fitRequest.equation_type = "fourier"
    /\ fitRequest.degree = 7
    /\ fitResult.type = "error"


\* the features whose table entry is a fixed specialized strategy
FixedStrategyFeatures == {"jawline", "left_eye", "right_eye", "outer_lips", "inner_lips"}

\* C11: for jawline, left_eye, right_eye, outer_lips and inner_lips the
\* strategy selected is the same for every equation_type and is the table's,
\* and a fit of them fails only for want of points, never for its
\* equation_type; with equation_type = auto every feature is fitted with its
\* table strategy.
C11_FixedStrategyIgnoresHint ==
    fitResult # NoData =>
        LET feature == fitRequest.feature_key
        IN  /\ feature \in FixedStrategyFeatures =>
                /\ \A t \in FitTypes :
                      selectStrategies(feature, t) = selectStrategies(feature, "auto")
                /\ fitResult.type = "error" => ~enoughPoints(fitRequest.num_points)
                /\ fitResult.type = "descriptor" =>
                      fitResult.strategy \in tableStrategies(feature)
            /\ (fitRequest.equation_type = "auto" /\ fitResult.type = "descriptor") =>
                  fitResult.strategy \in tableStrategies(feature)

\* an eye fitted under an explicit trigonometric hint is still an ellipse
C11_Witness ==
    /\ fitRequest.feature_key = "left_eye"
    /\ fitRequest.equation_type = "trigonometric"
    /\ fitResult.type = "descriptor"
    /\ fitResult.strategy = "parametric_ellipse"


\* C12: a hermite_spline of K knots is rendered as K-1 segments, and the
\* point of segment i at local t = 1 is the point of segment i+1 at local
\* t = 0, in x and in y, for every interior knot.
C12_HermiteSegmentsJoin ==
    (evaluator = "generateFeaturePoints" /\ equation # Undefined
        /\ equation.type = "hermite_spline" /\ result.outcome = "returned") =>
        LET y_vals == equation.parameters.x
            coeffs == equation.parameters.c
            K == Len(y_vals)
        IN  /\ Len(result.data) = (K - 1) * HermiteIterations
            /\ \A i \in 0..(K - 3) :
                  LET end == hermitePoint(y_vals, coeffs, i, HermiteDen, EvalFeature)
                      start == hermitePoint(y_vals, coeffs, i + 1, 0, EvalFeature)
                  IN  /\ RatEq(end.x, start.x)
                      /\ RatEq(end.y, start.y)


RECURSIVE Choose(_, _)
\* n! / (k! (n-k)!), by C(n, k) = C(n, k-1) * (n-k+1) / k
Choose(n, k) == IF k = 0 THEN 1 ELSE (Choose(n, k - 1) * (n - k + 1)) \div k

RECURSIVE PascalRow(_)
\* row n of Pascal's triangle, built from row n-1
PascalRow(n) ==
    IF n = 0 THEN <<1>>
    ELSE LET prev == PascalRow(n - 1)
         IN  <<1>> \o [i \in 1..(n - 1) |-> prev[i] + prev[i + 1]] \o <<1>>

\* C13: for 0 <= k <= n <= 15 the recursive binomial(n, k) returns a value,
\* and it is n!/(k!(n-k)!), the entry of Pascal's triangle.
C13_BinomialIsChoose ==
    (evaluator = "binomial" /\ result.outcome = "returned") =>
        /\ Len(result.data) = 1
        /\ result.data[1] = Choose(result.n, result.k)
        /\ result.data[1] = PascalRow(result.n)[result.k + 1]

\* the middle weight of the largest curve: C(15, 7) = 6435
C13_Witness ==
    /\ evaluator = "binomial"
    /\ result.n = 15
    /\ result.k = 7
    /\ result.data = <<6435>>


\* C14: every parameter value t at which the parametric_eye branch evaluates
\* the ellipse satisfies 0 <= t < 2*pi (t in units of 1/10000 against
\* 2*pi rounded down), for x and for y.
C14_EllipseSamplesInDomain ==
    (evaluator = "generateFeaturePoints" /\ equation # Undefined
        /\ equation.type = "parametric_eye" /\ result.outcome = "returned") =>
        /\ Len(result.data) > 0
        /\ \A s \in 1..Len(result.data) :
              LET t == result.data[s].x.t
              IN  /\ result.data[s].y.t = t
                  /\ t[1] >= 0
                  /\ t[1] * 10000 < TwoPiE4 * t[2]

\* the last sample of an eye: the 63rd, at t = 6.2
C14_Witness ==
    /\ evaluator = "generateFeaturePoints"
    /\ equation # Undefined
    /\ equation.type = "parametric_eye"
    /\ Len(result.data) = 63
    /\ result.data[63].x.t = Rat(62, 10)


\* the descriptor with one side's segment replaced
WithSegment(eq, side, seg) ==
    [eq EXCEPT !.segments = [eq.segments EXCEPT ![side] = seg]]

\* C15: a piecewise_spline is rendered as 100 points, the left segment's 50
\* and then the right segment's 50; each side is sampled at t = i/49 for
\* i = 0..49, all in [0,1] with t = 0 and t = 1 among them, and a side's
\* points come from that side's coefficients and degree alone.
C15_PiecewiseLocalDomains ==
    (evaluator = "generateFeaturePoints" /\ equation # Undefined
        /\ equation.type = "piecewise_spline" /\ result.outcome = "returned") =>
        LET left == equation.segments.left
            right == equation.segments.right
        IN  /\ Len(splineParams) = SplineSamples
            /\ \A i \in 0..SplineLast :
                  LET t == splineParams[i + 1]
                  IN  /\ RatEq(t, Rat(i, SplineLast))
                      /\ 0 <= t[1] /\ t[1] <= t[2]
            /\ splineParams[1][1] = 0
            /\ splineParams[SplineSamples][1] = splineParams[SplineSamples][2]
            /\ Len(result.data) = 2 * SplineSamples
            /\ \A k \in 1..SplineSamples :
                  /\ result.data[k] = splinePoint(left, splineParams[k], EvalFeature)
                  /\ result.data[SplineSamples + k]
                        = splinePoint(right, splineParams[k], EvalFeature)
            /\ \A seg \in SplineSegs :
                  /\ SubSeq(generateFeaturePoints(EvalFeature,
                                WithSegment(equation, "right", seg)).data,
                            1, SplineSamples)
                        = SubSeq(result.data, 1, SplineSamples)
                  /\ SubSeq(generateFeaturePoints(EvalFeature,
                                WithSegment(equation, "left", seg)).data,
                            SplineSamples + 1, 2 * SplineSamples)
                        = SubSeq(result.data, SplineSamples + 1, 2 * SplineSamples)

\* a jawline whose sides differ in degree: the last left point is the
\* quadratic at t = 1, the last right point the line at t = 1
C15_Witness ==
    /\ evaluator = "generateFeaturePoints"
    /\ equation # Undefined
    /\ equation.type = "piecewise_spline"
    /\ equation.segments.left.degree = 2
    /\ equation.segments.right.degree = 1
    /\ Len(result.data) = 2 * SplineSamples
    /\ RatEq(result.data[SplineSamples].x, Rat(0, 1))
    /\ RatEq(result.data[2 * SplineSamples].x, Rat(2, 1))


\* C16: a trigonometric descriptor carrying its `parameters` payload is
\* graphed as 101 samples at x = i/100, i = 0..100, and the graph is empty
\* only when no equation is given.
C16_TrigPayloadGraphed ==
    evaluator = "generateGraphPoints" =>
        /\ (equation # Undefined /\ equation.type = "trigonometric"
                /\ Has(equation, "parameters")) =>
              /\ result.outcome = "returned"
              /\ Len(result.data) = GraphSamples + 1
              /\ \A i \in 0..GraphSamples :
                    result.data[i + 1].x = Rat(i, GraphSamples)
        /\ (result.outcome = "returned" /\ Len(result.data) = 0) =>
              equation = Undefined


\* C17: in both versions loading is true exactly while an upload is under
\* way (a request sent or its body being read), and every upload that has
\* started ends with loading = false, whichever way its requests end.
C17_LoadingLifecycle ==
    /\ [](loading <=> (pc # "idle" /\ request.sent /\ inFlight > 0))
    /\ [](~loading => (pc = "idle" /\ ~request.sent /\ inFlight = 0))
    /\ (loading ~> ~loading)

\* a two-step upload whose second request returned a non-ok status has ended
C17_Witness ==
    /\ component = "FaceEquationsTwoStep"
    /\ ~loading
    /\ pc = "idle"
    /\ landmarkData # NoData
    /\ error = "Failed to generate equations"


\* C18: at most one upload is in flight: while an upload is pending the
\* control that starts one is disabled (the button of the single-request
\* version, the file input of the two-step version), an upload starts only
\* when none is pending, and the stored results are written only by the one
\* pending upload as it ends.
C18_AtMostOneUploadInFlight ==
    /\ [](/\ inFlight \in {0, 1}
          /\ pc # "idle" =>
                /\ inFlight = 1
                /\ component = "FaceEquations" => buttonDisabled
                /\ component = "FaceEquationsTwoStep" => fileInputDisabled)
    /\ [][inFlight' > inFlight => (pc = "idle" /\ inFlight = 0 /\ ~request.sent)]_vars
    /\ [][(landmarks' # landmarks \/ equations' # equations \/ faceData' # faceData)
            => (inFlight = 1 /\ inFlight' = 0)]_vars

\* another file is chosen in the single-request version while the upload of
\* the first is still pending
C18_Witness ==
    /\ component = "FaceEquations"
    /\ pc = "fetch"
    /\ inFlight = 1
    /\ file # request.file


\* the positions of the two-step uploadImage before and after the analyze
\* response has been read
AnalyzeStages == {"analyze", "analyzeJson"}
EquationsStages == {"equations", "equationsJson"}

\* C19: in the two-step upload the request to /api/face/upload is sent only
\* when the request to /api/face/analyze for the same file has returned ok
\* and landmarkData has been set from its body; an upload whose analyze
\* request fails or is not ok ends without a request to /api/face/upload.
C19_EquationsAfterAnalyze ==
    /\ [](component = "FaceEquationsTwoStep" =>
            /\ pc \in AnalyzeStages =>
                  (request.sent /\ request.endpoint = "/api/face/analyze")
            /\ pc \in EquationsStages =>
                  /\ request.sent /\ request.endpoint = "/api/face/upload"
                  /\ landmarkData \in AnalyzeResponses(request.file))
    /\ [][(component = "FaceEquationsTwoStep" /\ request'.sent
              /\ request'.endpoint = "/api/face/upload" /\ request' # request) =>
            /\ pc = "analyzeJson"
            /\ request.endpoint = "/api/face/analyze"
            /\ request'.file = request.file
            /\ landmarkData' \in AnalyzeResponses(request.file)]_vars
    /\ [][(component = "FaceEquationsTwoStep" /\ pc \in AnalyzeStages
              /\ pc' \notin AnalyzeStages /\ ~(pc = "analyzeJson" /\ pc' = "equations")) =>
            /\ pc' = "idle"
            /\ ~request'.sent
            /\ error' # Null
            /\ landmarkData' = landmarkData]_vars

\* the equations request of b.png is pending, after a.png was analyzed in an
\* earlier upload: landmarkData is b.png's
C19_Witness ==
    /\ component = "FaceEquationsTwoStep"
    /\ pc = "equations"
    /\ request.file = "b.png"
    /\ faceData # NoData
    /\ faceData.image = "a.png"
    /\ landmarkData.image = "b.png"


\* the messages of the errors an upload can catch
FailureMessages == {"Failed to fetch", "Failed to process image",
                    "Failed to analyze image", "Failed to generate equations",
                    "Unexpected token in JSON"}

\* the stored equation results: landmarks and equations in the
\* single-request version, faceData in the two-step version
StoredResults == <<landmarks, equations, faceData>>

\* C20: starting an upload sets error to null; while the upload is under
\* way the stored results and error stay as they are; an upload that fails
\* ends with error set to the failure message and the stored results as they
\* were before it; an upload that succeeds ends with error = null and the
\* stored results replaced by the response body.
C20_FailureHandling ==
    /\ [][inFlight' > inFlight =>
            (error' = Null /\ StoredResults' = StoredResults)]_vars
    /\ [][(pc # "idle" /\ pc' # "idle") =>
            (error' = Null /\ StoredResults' = StoredResults)]_vars
    /\ [][(pc # "idle" /\ pc' = "idle") =>
            \/ /\ error' \in FailureMessages
               /\ StoredResults' = StoredResults
            \/ /\ error' = Null
               /\ \/ /\ pc = "json"
                     /\ [landmarks |-> landmarks', equations |-> equations']
                            \in UIResponses
                     /\ faceData' = faceData
                  \/ /\ pc = "equationsJson"
                     /\ faceData' \in EquationResponses(request.file)
                     /\ landmarks' = landmarks /\ equations' = equations]_vars

\* an upload of the single-request version has failed with a non-ok status
\* after an earlier one succeeded: the earlier results are still stored
C20_Witness ==
    /\ component = "FaceEquations"
    /\ pc = "idle"
    /\ error = "Failed to process image"
    /\ equations # NoData
    /\ landmarks # NoData


\* C21: in the two-step version, whenever no upload is in flight and both
\* landmarkData and faceData are set, both were computed from the same file,
\* and that file is the selected one, whose preview is shown.
C21_SameImageDisplayed ==
    (component = "FaceEquationsTwoStep" /\ pc = "idle" /\ inFlight = 0
        /\ landmarkData # NoData /\ faceData # NoData) =>
        /\ landmarkData.image = faceData.image
        /\ faceData.image = file
        /\ preview = createObjectURL(faceData.image)


\* C22: after any sequence of Show/Hide Points, Show/Hide Curves and
\* feature-button clicks, selectedFeature is null or a key of
\* faceData.equations, and a click either resets the selected feature to
\* null or selects another key; allFeatureData holds 'curve' entries only
\* when showCurves is true and 'point' entries only when showPoints is true;
\* the lines drawn are the selected feature's alone when one is selected and
\* every feature's otherwise; and no toggle or click changes faceData.
C22_DisplayState ==
    /\ [](/\ vizSelected = Null \/ vizSelected \in DOMAIN faceData.equations
          /\ LET all == allFeatureData(faceData, showCurves, showPoints)
             IN  /\ all.outcome = "returned"
                 /\ \A i \in 1..Len(all.data) :
                       /\ all.data[i].type \in {"curve", "point"}
                       /\ all.data[i].type = "curve" => showCurves
                       /\ all.data[i].type = "point" => showPoints
          /\ drawnLines(faceData, vizSelected)
                = IF vizSelected = Null THEN keys(faceData.equations)
                  ELSE <<vizSelected>>)
    /\ [][vizSelected' # vizSelected =>
            \/ vizSelected # Null /\ vizSelected' = Null
            \/ vizSelected' \in DOMAIN faceData.equations]_vars
    /\ [][faceData' = faceData]_vars

\* the jawline selected with the points hidden: one line drawn, made of curve
\* entries only
C22_Witness ==
    /\ faceData # NoData
    /\ vizSelected = "jawline"
    /\ ~showPoints
    /\ showCurves
    /\ drawnLines(faceData, vizSelected) = <<"jawline">>
    /\ Len(lineData(faceData, showCurves, showPoints, "jawline")) = 2 * SplineSamples

=============================================================================
